---- MODULE Spec2Model ----
(***************************************************************************)
(* HID report decoder of the mouse configurator (src/src/event.rs):        *)
(* Header parsing, the reassembly of logical packets in report_1, the four *)
(* payload decoders and the next() loop of HpMouseEventIterator.           *)
(*                                                                         *)
(* Byte sequences are 1-based here: Rust data[i] is data[i + 1].           *)
(***************************************************************************)
EXTENDS Integers, Sequences, FiniteSets, TLC

VARIABLES
    incoming,   \* HpMouseEventIterator.incoming: Vec<u8>
    header,     \* HpMouseEventIterator.header: Header
    pc,         \* "caller": outside next(); "loop": about to read; "iterated":
                \* at the end of a loop iteration that read on; "panicked"
    ret,        \* what the latest next() returned
    buf,        \* next()'s buf[0..len] after the latest read (<<>>: none yet)
    last,       \* history: what the latest loop iteration did, and from where
    accum,      \* history: a packet started by a sequence-0 report is incomplete
    intr,       \* history: what interrupted the reassembly in progress
    sp,         \* the split-delivery experiment (SpecSplit)
    dec         \* the decoder experiment (SpecDecode)

vars == <<incoming, header, pc, ret, buf, last, accum, intr, sp, dec>>

----------------------------------------------------------------------------
(* Bounds of the model *)

MaxLen == 5        \* largest declared length a report of Spec carries
MaxSeq == 2        \* largest sequence number a report of Spec carries
MaxChunk == 2      \* most payload bytes one report of Spec carries
MaxSplitLen == 6   \* largest declared length of SpecSplit
MaxCuts == 3       \* most reports a packet of SpecSplit is split into
MaxButtonBytes == 9   \* most bytes after the 5 fixed ones of a Buttons payload
MaxProgrammed == 3    \* largest programmed_buttons byte of a Buttons payload
MaxFirmwareBytes == 5 \* most bytes after the 4 fixed ones of a Firmware payload

(* crate::HP_SIGNATURE: the device's signature base *)
HP_SIGNATURE == 3840

Bytes == {0, 1}

----------------------------------------------------------------------------
(* Header *)

NoHeader == [signature |-> -1, composit_device |-> -1, length |-> -1, sequence |-> -1]
NoKind == -1

(* mutant: the two bytes taken in big-endian order *)
u16_from_bytesBE(low, high) == high + 256 * low

(* u16::from_le_bytes([low, high]) *)
u16_from_bytes(low, high) == low + 256 * high

(* Header::default() *)
HeaderDefault == [signature |-> 0, composit_device |-> 0, length |-> 0, sequence |-> 0]

(* mutant: the high bytes are not masked *)
HeaderNewNoMask(data) ==
    IF Len(data) < 4 THEN NoHeader
    ELSE [signature |-> u16_from_bytes(data[1], data[2]),
          composit_device |-> (data[2] \div 16) % 16,
          length |-> u16_from_bytes(data[3], data[4]),
          sequence |-> (data[4] \div 4) % 64]

(* Header::new: data.get(0..3)?, bit fields *)
HeaderNew(data) ==
    IF Len(data) < 4 THEN NoHeader
    ELSE [signature |-> u16_from_bytes(data[1], data[2] % 16),
          composit_device |-> (data[2] \div 16) % 16,
          length |-> u16_from_bytes(data[3], data[4] % 4),
          sequence |-> (data[4] \div 4) % 64]

(* mutant: wrapping_sub in place of checked_sub *)
HeaderKindWrapping(h) == (h.signature - HP_SIGNATURE) % 65536

(* Header::kind: signature.checked_sub(HP_SIGNATURE) *)
HeaderKind(h) ==
    IF h.signature >= HP_SIGNATURE THEN h.signature - HP_SIGNATURE ELSE NoKind

----------------------------------------------------------------------------
(* Events and payload decoders *)

NoEvent == [type |-> "None"]

(* mutant: the bits of the flag byte viewed in Msb0 order *)
BitMsb0(byte, k) == ((byte \div (2 ^ (7 - k))) % 2) = 1

(* byte.view_bits::<Lsb0>()[k] *)
Bit(byte, k) == ((byte \div (2 ^ k)) % 2) = 1

(* data[from..] as far as it goes: Rust index from, 0-based *)
From(data, from) == SubSeq(data, from + 1, Len(data))

(* mutant: the inner loop stops one byte early *)
ClampedDropLast(data, i, size) ==
    SubSeq(data, i + 1, (IF i + size <= Len(data) THEN i + size ELSE Len(data)) - 1)

(* the inner loop "while i < data.len() && item.len() < size": size bytes *)
(* from Rust index i, clamped to the data                                  *)
Clamped(data, i, size) ==
    SubSeq(data, i + 1, IF i + size <= Len(data) THEN i + size ELSE Len(data))

IsCont(b) == b >= 128 /\ b <= 191

(* mutant: every byte string is taken for text *)
Utf8ValidLossy(s) == TRUE

(* str::from_utf8(..).ok(): is the byte string well-formed UTF-8 *)
RECURSIVE Utf8Valid(_)
Utf8Valid(s) ==
    IF Len(s) = 0 THEN TRUE
    ELSE LET b == s[1]
             n == Len(s)
         IN  IF b <= 127 THEN Utf8Valid(From(s, 1))
             ELSE IF b >= 194 /\ b <= 223
                  THEN n >= 2 /\ IsCont(s[2]) /\ Utf8Valid(From(s, 2))
             ELSE IF b >= 224 /\ b <= 239
                  THEN /\ n >= 3
                       /\ IsCont(s[2]) /\ IsCont(s[3])
                       /\ (b = 224 => s[2] >= 160)
                       /\ (b = 237 => s[2] <= 159)
                       /\ Utf8Valid(From(s, 3))
             ELSE IF b >= 240 /\ b <= 244
                  THEN /\ n >= 4
                       /\ IsCont(s[2]) /\ IsCont(s[3]) /\ IsCont(s[4])
                       /\ (b = 240 => s[2] >= 144)
                       /\ (b = 244 => s[2] <= 143)
                       /\ Utf8Valid(From(s, 4))
             ELSE FALSE

(* report_1_packet_1: the items loop from Rust index i *)
RECURSIVE FirmwareItems(_, _)
FirmwareItems(data, i) ==
    IF i >= Len(data) THEN <<>>
    ELSE LET size == data[i + 1]
             item == Clamped(data, i + 1, size)
         IN  <<item>> \o FirmwareItems(data, i + 1 + Len(item))

report_1_packet_1(data) ==
    IF Len(data) <= 3 THEN NoEvent
    ELSE LET firmware_version == u16_from_bytes(data[1], data[2])
             items == FirmwareItems(data, 4)
         IN  IF Len(items) < 1 \/ ~Utf8Valid(items[1]) THEN NoEvent
             ELSE IF Len(items) < 2 \/ ~Utf8Valid(items[2]) THEN NoEvent
             ELSE [type |-> "Firmware",
                   version |-> <<firmware_version \div 1000,
                                 (firmware_version % 1000) \div 10,
                                 firmware_version % 10>>,
                   device |-> items[1],
                   serial |-> items[2]]

(* mutant: the first two fields are read in the other order *)
report_1_packet_6_swapped(data) ==
    IF Len(data) <= 4 THEN NoEvent
    ELSE [type |-> "Battery",
          low_level |-> data[2],
          crit_level |-> data[1],
          power_off_timeout |-> data[3],
          auto_report_delay |-> data[4],
          level |-> data[5]]

report_1_packet_6(data) ==
    IF Len(data) <= 4 THEN NoEvent
    ELSE [type |-> "Battery",
          low_level |-> data[1],
          crit_level |-> data[2],
          power_off_timeout |-> data[3],
          auto_report_delay |-> data[4],
          level |-> data[5]]

(* mutant: the buttons loop runs while buttons.len() <= programmed_buttons *)
RECURSIVE ButtonListOffByOne(_, _, _, _)
ButtonListOffByOne(data, i, n, programmed_buttons) ==
    IF n > programmed_buttons THEN <<>>
    ELSE IF Len(data) <= i + 3 THEN <<>>
    ELSE LET size == data[i + 4]
             action == SubSeq(data, i + 5,
                              IF i + 4 + size <= Len(data) THEN i + 4 + size ELSE Len(data))
             button == [id |-> data[i + 1],
                        host_id |-> data[i + 2],
                        press_type |-> data[i + 3],
                        action |-> action]
         IN  <<button>> \o
             ButtonListOffByOne(data, i + 4 + Len(action), n + 1, programmed_buttons)

(* report_1_packet_14: the buttons loop from Rust index i, n buttons so far *)
RECURSIVE ButtonList(_, _, _, _)
ButtonList(data, i, n, programmed_buttons) ==
    IF n >= programmed_buttons THEN <<>>
    ELSE IF Len(data) <= i + 3 THEN <<>>
    ELSE LET size == data[i + 4]
             action == Clamped(data, i + 4, size)
             button == [id |-> data[i + 1],
                        host_id |-> data[i + 2],
                        press_type |-> data[i + 3],
                        action |-> action]
         IN  <<button>> \o ButtonList(data, i + 4 + Len(action), n + 1, programmed_buttons)

report_1_packet_14(data) ==
    IF Len(data) = 0 \/ data[1] # 0 THEN NoEvent
    ELSE IF Len(data) <= 4 THEN NoEvent
    ELSE [type |-> "Buttons",
          total_buttons |-> data[2],
          programmed_buttons |-> data[3],
          host_id |-> data[4],
          support_long_press |-> Bit(data[5], 0),
          support_double_press |-> Bit(data[5], 1),
          support_down_up_press |-> Bit(data[5], 2),
          support_simulate |-> Bit(data[5], 3),
          support_program_stop |-> Bit(data[5], 4),
          buttons |-> ButtonList(data, 5, 0, data[3])]

(* mutant: 0 is kept as a present value *)
NonZeroU8Some(n) == [present |-> TRUE, value |-> n]

(* NonZeroU8::new: 0 is None (absent) *)
NonZeroU8(n) == IF n = 0 THEN [present |-> FALSE, value |-> 0]
                ELSE [present |-> TRUE, value |-> n]

report_1_packet_18(data) ==
    IF Len(data) = 0 \/ data[1] # 0 THEN NoEvent
    ELSE IF Len(data) <= 14 THEN NoEvent
    ELSE [type |-> "Mouse",
          max_dpi |-> u16_from_bytes(data[2], data[3]),
          min_dpi |-> u16_from_bytes(data[4], data[5]),
          dpi |-> u16_from_bytes(data[6], data[7]),
          step_dpi |-> u16_from_bytes(data[8], data[9]),
          nb_sensitivity_wheel1 |-> NonZeroU8(data[10] % 16),
          sensitivity_wheel1 |-> data[10] \div 16,
          nb_sensitivity_wheel2 |-> NonZeroU8(data[11] % 16),
          sensitivity_wheel2 |-> data[11] \div 16,
          host_id |-> data[12],
          cut_off_max |-> data[13],
          cut_off |-> data[14],
          support_left_handed |-> Bit(data[15], 0),
          left_handed |-> Bit(data[15], 1),
          support_no_save_to_flash |-> Bit(data[15], 2)]

(* mutant: a kind that is not recognized falls into the Battery decoder *)
DispatchDefaultBattery(kind, data) ==
    CASE kind = 1 -> report_1_packet_1(data)
      [] kind = 14 -> report_1_packet_14(data)
      [] kind = 18 -> report_1_packet_18(data)
      [] OTHER -> report_1_packet_6(data)

(* report_1: "match kind { 1 => .., 6 => .., 14 => .., 18 => .., _ => None }" *)
Dispatch(kind, data) ==
    CASE kind = 1 -> report_1_packet_1(data)
      [] kind = 6 -> report_1_packet_6(data)
      [] kind = 14 -> report_1_packet_14(data)
      [] kind = 18 -> report_1_packet_18(data)
      [] OTHER -> NoEvent

----------------------------------------------------------------------------
(* Reassembly: report_1 *)

(* "assert_eq!(self.incoming.len(), 0)" of the sequence-0 branch *)
StartAllowed(inc) == Len(inc) = 0

(* mutant: the length of a continuation is not compared *)
ContinueAllowedNoLength(hdr, h) ==
    /\ h.signature = hdr.signature
    /\ h.sequence = hdr.sequence + 1

(* the three assert_eq! of the continuation branch *)
ContinueAllowed(hdr, h) ==
    /\ h.signature = hdr.signature
    /\ h.length = hdr.length
    /\ h.sequence = hdr.sequence + 1

(* mutant: a continuation does not advance the stored sequence *)
StoredHeaderNoAdvance(hdr, h) == IF h.sequence = 0 THEN h ELSE hdr

(* "self.header = header" or "self.header.sequence += 1" (sequence <= 63: the *)
(* u8 addition cannot overflow)                                              *)
StoredHeader(hdr, h) ==
    IF h.sequence = 0 THEN h ELSE [hdr EXCEPT !.sequence = hdr.sequence + 1]

(* "self.incoming.extend_from_slice(&data[4..])" *)
Extend(inc, data) == inc \o From(data, 4)

(* mutant: a buffer of exactly the declared length is not yet complete *)
EnoughStrict(inc, h) == Len(inc) > h.length

(* "self.incoming.len() >= header.length" *)
Enough(inc, h) == Len(inc) >= h.length

(* mutant: the taken buffer is not truncated *)
TruncateNone(inc, n) == inc

(* "incoming.truncate(header.length)" *)
Truncate(inc, n) == SubSeq(inc, 1, IF n <= Len(inc) THEN n ELSE Len(inc))

(* report_1(&mut self, data): the new incoming and header, the event returned, *)
(* how the call went, and the bytes handed to a decoder.                        *)
Report1(inc, hdr, data) ==
    LET h == HeaderNew(data)
        kind == HeaderKind(h)
        same(how) == [incoming |-> inc, header |-> hdr, event |-> NoEvent,
                      outcome |-> how, decoded |-> <<>>]
    IN  IF h = NoHeader THEN same("noheader")
        ELSE IF kind = NoKind THEN same("nokind")
        ELSE IF h.sequence = 0 /\ ~StartAllowed(inc) THEN same("panic")
        ELSE IF h.sequence # 0 /\ ~ContinueAllowed(hdr, h) THEN same("panic")
        ELSE LET full == Extend(inc, data)
                 stored == StoredHeader(hdr, h)
             IN  IF Enough(full, h)
                 THEN LET taken == Truncate(full, h.length)
                      IN  [incoming |-> <<>>, header |-> stored,
                           event |-> Dispatch(kind, taken),
                           outcome |-> "complete", decoded |-> taken]
                 ELSE [incoming |-> full, header |-> stored, event |-> NoEvent,
                       outcome |-> "partial", decoded |-> <<>>]

----------------------------------------------------------------------------
(* The transport: what dev.read can put into buf *)

RECURSIVE SeqsUpTo(_, _)
SeqsUpTo(S, n) ==
    IF n = 0 THEN {<<>>}
    ELSE LET shorter == SeqsUpTo(S, n - 1)
         IN  shorter \cup {Append(s, b) : s \in {t \in shorter : Len(t) = n - 1}, b \in S}

(* the wire layout Header::new reads, after the report-type byte *)
EncodeHeader(signature, composit_device, length, sequence) ==
    <<signature % 256,
      (signature \div 256) + 16 * composit_device,
      length % 256,
      (length \div 256) + 4 * sequence>>

(* signatures at least the base: kind 2 (not recognized) and kind 6 *)
Signatures == {HP_SIGNATURE + 2, HP_SIGNATURE + 6}

(* payloads of a report: up to MaxChunk bytes, the first 1, neighbours different *)
Payloads ==
    {p \in SeqsUpTo(Bytes, MaxChunk) :
        /\ \A i \in 1..(Len(p) - 1) : p[i] # p[i + 1]
        /\ Len(p) > 0 => p[1] = 1}

(* reports with a signature just below the base: first and last sequence, *)
(* shortest and longest length, with and without a payload byte           *)
BelowBaseReports ==
    {<<1>> \o EncodeHeader(HP_SIGNATURE - 1, 0, l, q) \o p :
        l \in {0, MaxLen}, q \in {0, MaxSeq}, p \in {<<>>, <<1>>}}

(* kinds 2 and 6 with declared length 0, 1 or MaxLen, and the reports below *)
(* the base                                                                 *)
Type1Reports ==
    {<<1>> \o EncodeHeader(s, 0, l, q) \o p :
        s \in Signatures, l \in {0, 1, MaxLen}, q \in 0..MaxSeq, p \in Payloads}
    \cup BelowBaseReports

(* type-1 reports too short to hold a header, and reports of other types *)
ShortReports == {<<1>>, <<1, 6, 15, 5>>}
OtherReports == {<<0>>, <<2>> \o EncodeHeader(HP_SIGNATURE + 6, 0, 1, 0) \o <<1>>}

----------------------------------------------------------------------------
(* The iterator: next() *)

Pending == [kind |-> "pending", event |-> NoEvent]

NoLast == [op |-> "none", pre_incoming |-> <<>>, pre_header |-> HeaderDefault,
           pre_accum |-> FALSE, outcome |-> "none", event |-> NoEvent,
           decoded |-> <<>>, len |-> 0]

Before(op) == [NoLast EXCEPT !.op = op, !.pre_incoming = incoming,
                             !.pre_header = header, !.pre_accum = accum]

NoSplit == [state |-> "off"]
NoDecode == [state |-> "off"]

(* "self.dev.read(&mut buf)" of a report: its bytes are written over the *)
(* front of buf, what an earlier read of this call left behind them stays *)
ReadInto(old, report) == report \o From(old, Len(report))

(* mutant: everything in the buffer after the report-type byte is passed on *)
ReadSliceWhole(b, len) == From(b, 1)

(* "&buf[1..len]" *)
ReadSlice(b, len) == SubSeq(b, 2, len)

(* HpMouseEventIterator::new *)
Init ==
    /\ incoming = <<>>
    /\ header = HeaderDefault
    /\ pc = "caller"
    /\ ret = Pending
    /\ buf = <<>>
    /\ last = NoLast
    /\ accum = FALSE
    /\ intr = {}
    /\ sp = NoSplit
    /\ dec = NoDecode

(* the caller pulls the next item: "let mut buf = [0; 4096]; loop {" *)
CallNext ==
    /\ pc = "caller"
    /\ pc' = "loop"
    /\ ret' = Pending
    /\ buf' = <<>>
    /\ last' = NoLast
    /\ UNCHANGED <<incoming, header, accum, intr, sp, dec>>

(* mutant: a failed read drops the packet in progress *)
ReadFailResets ==
    /\ pc = "loop"
    /\ pc' = "caller"
    /\ ret' = [kind |-> "Err", event |-> NoEvent]
    /\ last' = Before("fail")
    /\ incoming' = <<>>
    /\ header' = HeaderDefault
    /\ accum' = FALSE
    /\ UNCHANGED <<buf, intr, sp, dec>>

(* mutant: a failed read is skipped, the loop reads on *)
ReadFailReadsOn ==
    /\ pc = "loop"
    /\ pc' = "iterated"
    /\ last' = Before("fail")
    /\ intr' = IF accum THEN intr \cup {"fail"} ELSE intr
    /\ UNCHANGED <<incoming, header, ret, buf, accum, sp, dec>>

(* "Err(err) => return Some(Err(err))" *)
ReadFail ==
    /\ pc = "loop"
    /\ pc' = "caller"
    /\ ret' = [kind |-> "Err", event |-> NoEvent]
    /\ last' = Before("fail")
    /\ intr' = IF accum THEN intr \cup {"fail"} ELSE intr
    /\ UNCHANGED <<incoming, header, buf, accum, sp, dec>>

(* mutant: a zero-length read is not the end, the loop reads on *)
ReadZeroReadsOn ==
    /\ pc = "loop"
    /\ pc' = "iterated"
    /\ buf' = <<>>
    /\ last' = Before("zero")
    /\ UNCHANGED <<incoming, header, ret, accum, intr, sp, dec>>

(* "if len == 0 { return None; }" *)
ReadZero ==
    /\ pc = "loop"
    /\ pc' = "caller"
    /\ ret' = [kind |-> "None", event |-> NoEvent]
    /\ buf' = <<>>
    /\ last' = Before("zero")
    /\ UNCHANGED <<incoming, header, accum, intr, sp, dec>>

(* "match buf[0] { .. _ => {} }": a report of a type that is not handled *)
ReadOther ==
    /\ pc = "loop"
    /\ \E report \in OtherReports :
        /\ report[1] # 1
        /\ buf' = ReadInto(buf, report)
        /\ last' = [Before("other") EXCEPT !.len = Len(report)]
    /\ pc' = "iterated"
    /\ UNCHANGED <<incoming, header, ret, accum, intr, sp, dec>>

(* mutant: a packet that completes without an event ends the call *)
AfterReport1Returns(r) ==
    IF r.outcome = "panic" THEN "panicked"
    ELSE IF r.event # NoEvent \/ r.outcome = "complete" THEN "caller" ELSE "iterated"

(* "Some(event) => return Some(Ok(event)), None => {}": where next() is *)
(* after report_1; a failed assertion panics                            *)
AfterReport1(r) ==
    IF r.outcome = "panic" THEN "panicked"
    ELSE IF r.event # NoEvent THEN "caller" ELSE "iterated"

(* "1 => match self.report_1(&buf[1..len])", the report read being one of *)
(* reports                                                                *)
ReadReport1From(reports) ==
    /\ pc = "loop"
    /\ \E report \in reports :
        LET read == ReadInto(buf, report)
            data == ReadSlice(read, Len(report))
            r == Report1(incoming, header, data)
            h == HeaderNew(data)
        IN  /\ report[1] = 1
            /\ buf' = read
            /\ incoming' = r.incoming
            /\ header' = r.header
            /\ pc' = AfterReport1(r)
            /\ ret' = IF r.outcome # "panic" /\ r.event # NoEvent
                      THEN [kind |-> "Ok", event |-> r.event] ELSE ret
            /\ last' = [Before("report1") EXCEPT !.outcome = r.outcome,
                                                 !.event = r.event,
                                                 !.decoded = r.decoded,
                                                 !.len = Len(report)]
            /\ accum' = CASE r.outcome = "complete" -> FALSE
                          [] r.outcome = "partial" /\ h.sequence = 0 -> TRUE
                          [] OTHER -> accum
            /\ intr' = CASE r.outcome \in {"complete", "partial"} /\ h.sequence = 0 -> {}
                         [] r.outcome = "nokind" /\ accum -> intr \cup {"below"}
                         [] OTHER -> intr
    /\ UNCHANGED <<sp, dec>>

ReadReport1 == ReadReport1From(Type1Reports \cup ShortReports)

(* mutant: the loop body ends without going back to the read *)
LoopAgainStuck ==
    /\ pc = "iterated"
    /\ pc' = "iterated"
    /\ last' = NoLast
    /\ UNCHANGED <<incoming, header, ret, buf, accum, intr, sp, dec>>

(* the end of the loop body: back to "loop {"; buf, declared before the *)
(* loop, keeps its bytes                                                *)
LoopAgain ==
    /\ pc = "iterated"
    /\ pc' = "loop"
    /\ last' = NoLast
    /\ UNCHANGED <<incoming, header, ret, buf, accum, intr, sp, dec>>

Next == CallNext \/ ReadFail \/ ReadZero \/ ReadOther \/ ReadReport1 \/ LoopAgain

Spec == Init /\ [][Next]_vars

----------------------------------------------------------------------------
(* SpecComposite: next() over Battery reports of two composite sub-devices *)

CompositeDevices == {0, 1}

CompositeReports ==
    {<<1>> \o EncodeHeader(HP_SIGNATURE + 6, c, l, q) \o p :
        c \in CompositeDevices, l \in 0..MaxLen, q \in 0..MaxSeq, p \in Payloads}

ReadComposite == ReadReport1From(CompositeReports)

NextComposite == CallNext \/ ReadComposite \/ LoopAgain

SpecComposite == Init /\ [][NextComposite]_vars

----------------------------------------------------------------------------
(* SpecBuffer: next() with the read buffer kept from one read of a call to *)
(* the next, so that a short report has an earlier report's bytes behind it *)

(* a Battery packet in one report, and a packet of 3 bytes in three *)
BufferLong == <<1>> \o EncodeHeader(HP_SIGNATURE + 6, 0, 5, 0) \o <<10, 5, 30, 60, 85>>

BufferParts ==
    {<<1>> \o EncodeHeader(HP_SIGNATURE + 6, 0, 3, q) \o <<7 + q>> : q \in 0..2}

(* type-1 reports of 1..4 bytes: 0..3 bytes after the report-type byte *)
BufferShort == {SubSeq(BufferLong, 1, n) : n \in 1..4}

(* the Battery packet in two reports *)
BufferHalves ==
    {<<1>> \o EncodeHeader(HP_SIGNATURE + 6, 0, 5, 0) \o <<10, 5>>,
     <<1>> \o EncodeHeader(HP_SIGNATURE + 6, 0, 5, 1) \o <<30, 60, 85>>}

BufferReports == {BufferLong} \cup BufferParts \cup BufferShort \cup BufferHalves

ReadBuffer == ReadReport1From(BufferReports)

NextBuffer == CallNext \/ ReadOther \/ ReadBuffer \/ LoopAgain

SpecBuffer == Init /\ [][NextBuffer]_vars

----------------------------------------------------------------------------
(* SpecLive: next() over the same reports with a transport that can also  *)
(* end or fail. Of the steps only the way back to "loop {" is the code's   *)
(* own: it is taken (weak fairness). What the caller and the transport do  *)
(* is not the code's to promise.                                           *)

NextLive == CallNext \/ ReadFail \/ ReadZero \/ ReadOther \/ ReadBuffer \/ LoopAgain

SpecLive ==
    /\ Init
    /\ [][NextLive]_vars
    /\ WF_vars(LoopAgain)

----------------------------------------------------------------------------
(* SpecKinds: next() over packets of the four recognized kinds, around the *)
(* lengths their decoders ask for                                          *)

(* the kinds report_1 has a decoder for *)
Recognized == {1, 6, 14, 18}

(* declared lengths: 0, and either side of "<= 3", "<= 4" and "<= 14" *)
KindLengths == {0, 1, 3, 4, 5, 14, 15}

(* a payload of l bytes: the first byte f, then zeros *)
KindPacket(f, l) == [i \in 1..l |-> IF i = 1 THEN f ELSE 0]

(* a sequence-0 report with nothing, one byte or all of the payload, and a *)
(* sequence-1 report with the rest                                         *)
KindReports ==
    UNION {
        {<<1>> \o EncodeHeader(HP_SIGNATURE + k, 0, l, 0) \o SubSeq(KindPacket(f, l), 1, n) :
            k \in Recognized, f \in Bytes, n \in {0, 1, l} \cap 0..l}
        \cup {<<1>> \o EncodeHeader(HP_SIGNATURE + k, 0, l, 1) \o SubSeq(KindPacket(0, l), 1, n) :
            k \in Recognized, n \in {l - 1, l} \cap 0..l}
        : l \in KindLengths}

ReadKinds == ReadReport1From(KindReports)

NextKinds == CallNext \/ ReadKinds \/ LoopAgain

SpecKinds == Init /\ [][NextKinds]_vars

----------------------------------------------------------------------------
(* SpecSplit: one logical packet fed to report_1 whole, and in chunks *)

RECURSIVE Sum(_)
Sum(q) == IF Len(q) = 0 THEN 0 ELSE q[1] + Sum(From(q, 1))

(* the ways to cut n bytes into 1..MaxCuts contiguous chunks *)
Cuts(n) ==
    {c \in SeqsUpTo(0..n, MaxCuts) : Len(c) >= 1 /\ Sum(c) = n}

(* the j-th chunk of payload P under the cuts c *)
Chunk(P, c, j) ==
    LET before == Sum(SubSeq(c, 1, j - 1))
    IN  SubSeq(P, before + 1, before + c[j])

(* signatures of SpecSplit: kinds 2 (not recognized), 6 and 14 *)
SplitSignatures == {HP_SIGNATURE + 2, HP_SIGNATURE + 6, HP_SIGNATURE + 14}

(* headers an idle iterator can hold: the default, or that of an earlier *)
(* packet of the same signature and length                               *)
IdleHeaders(signature, length) ==
    {HeaderDefault,
     [signature |-> signature, composit_device |-> 0, length |-> length, sequence |-> 1]}

InitSplit ==
    /\ incoming = <<>>
    /\ pc = "caller"
    /\ ret = Pending
    /\ buf = <<>>
    /\ last = NoLast
    /\ accum = FALSE
    /\ intr = {}
    /\ dec = NoDecode
    /\ \E s \in SplitSignatures, l \in 0..MaxSplitLen :
        \E P \in {q \in SeqsUpTo(Bytes, l) : Len(q) = l} :
            \E c \in Cuts(l) :
                /\ header \in IdleHeaders(s, l)
                /\ sp = [state |-> "whole", signature |-> s, length |-> l,
                         payload |-> P, cuts |-> c, idx |-> 0,
                         idle |-> header, whole |-> NoEvent, events |-> <<>>,
                         panicked |-> FALSE]

(* the whole payload in one report with sequence 0, to an idle iterator *)
FeedWhole ==
    /\ sp.state = "whole"
    /\ LET data == EncodeHeader(sp.signature, 0, sp.length, 0) \o sp.payload
           r == Report1(<<>>, sp.idle, data)
       IN  sp' = [sp EXCEPT !.state = "chunks", !.whole = r.event,
                            !.panicked = (r.outcome = "panic")]
    /\ UNCHANGED <<incoming, header, pc, ret, buf, last, accum, intr, dec>>

(* the next chunk in a report with the next sequence number *)
FeedChunk ==
    /\ sp.state = "chunks"
    /\ LET j == sp.idx + 1
           data == EncodeHeader(sp.signature, 0, sp.length, sp.idx) \o
                   Chunk(sp.payload, sp.cuts, j)
           r == Report1(incoming, header, data)
       IN  /\ incoming' = r.incoming
           /\ header' = r.header
           /\ sp' = [sp EXCEPT
                       !.idx = j,
                       !.events = IF r.event = NoEvent THEN @ ELSE Append(@, r.event),
                       !.panicked = @ \/ r.outcome = "panic",
                       !.state = IF r.outcome = "panic" \/ j = Len(sp.cuts)
                                 THEN "done" ELSE "chunks"]
    /\ UNCHANGED <<pc, ret, buf, last, accum, intr, dec>>

NextSplit == FeedWhole \/ FeedChunk

SpecSplit == InitSplit /\ [][NextSplit]_vars

----------------------------------------------------------------------------
(* SpecDecode: complete payloads handed to the decoder of their kind *)

ByteSamples == {0, 1, 127, 255}

(* the Buttons payload [0x00, 7, 1, 0, 0b00010011, id, host, press, 0] *)
ButtonsScenario(id, host, press) == <<0, 7, 1, 0, 19, id, host, press, 0>>

ButtonsScenarioInputs ==
    {[kind |-> 14, data |-> ButtonsScenario(id, host, press)] :
        id \in ByteSamples, host \in ByteSamples, press \in ByteSamples}

(* the Firmware payload [0xE8,0x03, 0x00,0x00, 0x04,'M','o','u','s','e', *)
(* 0x03,'0','0','1']                                                     *)
FirmwareScenario == <<232, 3, 0, 0, 4, 77, 111, 117, 115, 101, 3, 48, 48, 49>>

(* the same with the length byte of the five bytes 'Mouse' set to 5 *)
FirmwareScenarioFive == <<232, 3, 0, 0, 5, 77, 111, 117, 115, 101, 3, 48, 48, 49>>

FirmwareScenarioInputs ==
    {[kind |-> 1, data |-> FirmwareScenario], [kind |-> 1, data |-> FirmwareScenarioFive]}

(* Buttons payloads: total 7, host 0, flags 0b10011, then records *)
ButtonsInputs ==
    {[kind |-> 14, data |-> <<0, 7, pb, 0, 19>> \o body] :
        pb \in 0..MaxProgrammed, body \in SeqsUpTo(Bytes, MaxButtonBytes)}

(* Firmware payloads: version 1000, two bytes skipped, then items made of *)
(* 0, 1, 'A' and 0xFF (never valid in UTF-8); and payloads of 0..3 bytes  *)
FirmwareBytes == {0, 1, 65, 255}

FirmwareInputs ==
    {[kind |-> 1, data |-> <<232, 3, 0, 0>> \o body] :
        body \in SeqsUpTo(FirmwareBytes, MaxFirmwareBytes)}
    \cup {[kind |-> 1, data |-> SubSeq(<<232, 3, 0>>, 1, n)] : n \in 0..3}

(* the Battery payload [10, 5, 30, 60, 85] *)
BatteryScenario == <<10, 5, 30, 60, 85>>

(* Battery payloads of 5 bytes: every combination of the sample bytes, and *)
(* every byte value 0..255 at each position of the scenario                *)
BatteryInputs ==
    {[kind |-> 6, data |-> <<b0, b1, b2, b3, b4>>] :
        b0 \in ByteSamples, b1 \in ByteSamples, b2 \in ByteSamples,
        b3 \in ByteSamples, b4 \in ByteSamples}
    \cup {[kind |-> 6, data |-> [BatteryScenario EXCEPT ![i] = v]] :
            i \in 1..5, v \in 0..255}

(* a Mouse payload of 15 bytes: 16000/400/1600/50 dpi, the two wheel bytes, *)
(* host 1, cut-off 3 and 2, flags 0b101                                    *)
MouseScenario(w1, w2) == <<0, 128, 62, 144, 1, 64, 6, 50, 0, w1, w2, 1, 3, 2, 5>>

WheelSamples == {0, 1, 16, 47, 240, 255}

(* Mouse payloads: every value of one wheel byte against samples of the other *)
MouseInputs ==
    {[kind |-> 18, data |-> MouseScenario(w1, w2)] : w1 \in 0..255, w2 \in WheelSamples}
    \cup {[kind |-> 18, data |-> MouseScenario(w1, w2)] : w1 \in WheelSamples, w2 \in 0..255}

DecodeInputs ==
    ButtonsScenarioInputs \cup FirmwareScenarioInputs \cup ButtonsInputs
        \cup FirmwareInputs \cup BatteryInputs \cup MouseInputs

InitDecode ==
    /\ incoming = <<>>
    /\ header = HeaderDefault
    /\ pc = "caller"
    /\ ret = Pending
    /\ buf = <<>>
    /\ last = NoLast
    /\ accum = FALSE
    /\ intr = {}
    /\ sp = NoSplit
    /\ \E in \in DecodeInputs :
        dec = [state |-> "input", kind |-> in.kind, data |-> in.data, event |-> NoEvent]

(* the match of report_1 on a complete packet *)
Decode ==
    /\ dec.state = "input"
    /\ dec' = [dec EXCEPT !.state = "decoded", !.event = Dispatch(dec.kind, dec.data)]
    /\ UNCHANGED <<incoming, header, pc, ret, buf, last, accum, intr, sp>>

(* report_1 on a fresh iterator with the one report that carries the whole *)
(* payload: sequence 0, declared length the payload's                     *)
Deliver ==
    /\ dec.state = "input"
    /\ LET data == EncodeHeader(HP_SIGNATURE + dec.kind, 0, Len(dec.data), 0) \o dec.data
           r == Report1(<<>>, HeaderDefault, data)
       IN  dec' = [dec EXCEPT !.state = "delivered", !.event = r.event]
    /\ UNCHANGED <<incoming, header, pc, ret, buf, last, accum, intr, sp>>

NextDecode == Decode \/ Deliver

SpecDecode == InitDecode /\ [][NextDecode]_vars

----------------------------------------------------------------------------
(* SpecHeader: Header::new and Header::kind on four header bytes, and what *)
(* report_1 stores for them                                               *)

(* bytes with all or none of the bits of a field set *)
HeaderSamples == {0, 15, 252, 255}

(* every value of one byte against the samples of the other three *)
HeaderInput(i, v, s) == [k \in 1..4 |-> IF k = i THEN v ELSE s[k]]

InitHeader ==
    /\ incoming = <<>>
    /\ header = HeaderDefault
    /\ pc = "caller"
    /\ ret = Pending
    /\ buf = <<>>
    /\ last = NoLast
    /\ accum = FALSE
    /\ intr = {}
    /\ sp = NoSplit
    /\ \E i \in 1..4, v \in 0..255, s \in HeaderSamples \X HeaderSamples \X HeaderSamples \X HeaderSamples :
        dec = [state |-> "bytes", data |-> HeaderInput(i, v, s), hdr |-> NoHeader, kind |-> NoKind,
               stored |-> HeaderDefault, outcome |-> "none"]

(* "let header = Header::new(data)?; let kind = header.kind()?" *)
ParseHeader ==
    /\ dec.state = "bytes"
    /\ LET h == HeaderNew(dec.data)
       IN  dec' = [dec EXCEPT !.state = "parsed", !.hdr = h, !.kind = HeaderKind(h)]
    /\ UNCHANGED <<incoming, header, pc, ret, buf, last, accum, intr, sp>>

(* report_1 on a report of these header bytes and no payload, the iterator *)
(* being where it accepts one: new for sequence 0, else holding the same   *)
(* header with the sequence before                                         *)
StoreHeader ==
    /\ dec.state = "parsed"
    /\ LET prior == IF dec.hdr.sequence = 0 THEN HeaderDefault
                    ELSE [dec.hdr EXCEPT !.sequence = dec.hdr.sequence - 1]
           r == Report1(<<>>, prior, dec.data)
       IN  dec' = [dec EXCEPT !.state = "stored", !.stored = r.header,
                              !.outcome = r.outcome]
    /\ UNCHANGED <<incoming, header, pc, ret, buf, last, accum, intr, sp>>

NextHeader == ParseHeader \/ StoreHeader

SpecHeader == InitHeader /\ [][NextHeader]_vars

----------------------------------------------------------------------------
(* What the latest loop iteration read *)

LastData == SubSeq(buf, 2, last.len)
LastHeader == HeaderNew(LastData)
LastPayload == From(LastData, 4)
LastFull == last.pre_incoming \o LastPayload

(* the latest iteration fed report_1 a report with a header *)
Fed == last.op = "report1" /\ LastHeader # NoHeader

(* ... whose signature is at least the base *)
Handled == Fed /\ LastHeader.signature >= HP_SIGNATURE

(* the report's header agrees with the stored header of before *)
Matches ==
    /\ LastHeader.signature = last.pre_header.signature
    /\ LastHeader.length = last.pre_header.length
    /\ LastHeader.sequence = last.pre_header.sequence + 1

----------------------------------------------------------------------------
(* C2: while a packet started by a sequence-0 report is incomplete, whatever *)
(* is buffered, a further sequence-0 report is rejected.                     *)
C2_DoubleStartRejected ==
    (Handled /\ LastHeader.sequence = 0 /\ last.pre_accum)
        => last.outcome = "panic"

(* C3: while a packet is in progress a continuation is accepted only if its *)
(* signature, length and sequence (stored + 1) agree with the stored header; *)
(* then its payload is appended and the stored sequence advances by one; a  *)
(* mismatch is rejected and appends nothing.                                 *)
C3_ContinuationCrossCheck ==
    (Handled /\ LastHeader.sequence > 0 /\ last.pre_accum) =>
        /\ last.outcome \in {"partial", "complete", "panic"}
        /\ last.outcome = "panic" <=> ~Matches
        /\ last.outcome = "panic" =>
            incoming = last.pre_incoming /\ header = last.pre_header
        /\ last.outcome # "panic" =>
            /\ header = [last.pre_header EXCEPT !.sequence = @ + 1]
            /\ IF last.outcome = "partial" THEN incoming = LastFull
               ELSE last.decoded = SubSeq(LastFull, 1, LastHeader.length)

C3_Witness ==
    /\ Handled /\ LastHeader.sequence > 0 /\ last.pre_accum
    /\ last.outcome = "partial"
    /\ last.pre_incoming # <<>>
    /\ LastPayload # <<>>

(* C4: a continuation is accepted only while a packet is in progress; with  *)
(* nothing in progress and nothing buffered it is rejected.                  *)
C4_ContinuationNeedsPacket ==
    (Handled /\ LastHeader.sequence > 0 /\ ~last.pre_accum /\ last.pre_incoming = <<>>)
        => last.outcome = "panic"

(* C5: when the buffer with the report's payload appended reaches the       *)
(* declared length L, the decoder of the kind gets exactly its first L bytes, *)
(* and the buffer is empty afterwards, event or not.                         *)
C5_CompletionExactLength ==
    (Handled /\ last.outcome # "panic" /\ Len(LastFull) >= LastHeader.length) =>
        /\ last.outcome = "complete"
        /\ last.decoded = SubSeq(LastFull, 1, LastHeader.length)
        /\ last.event = Dispatch(LastHeader.signature - HP_SIGNATURE, last.decoded)
        /\ incoming = <<>>

C5_Witness ==
    /\ Handled /\ last.outcome = "complete"
    /\ last.pre_incoming # <<>>
    /\ Len(LastFull) > LastHeader.length
    /\ last.event # NoEvent

(* C6: a report whose signature is below the base yields no event and leaves *)
(* the buffer and the stored header as they were, in every state.            *)
C6_BelowBaseIgnored ==
    (Fed /\ LastHeader.signature < HP_SIGNATURE) =>
        /\ last.outcome = "nokind"
        /\ last.event = NoEvent
        /\ incoming = last.pre_incoming
        /\ header = last.pre_header
        /\ pc = "iterated"

(* a packet interrupted by a below-base report is completed and decoded *)
C6_Witness ==
    /\ Handled /\ last.outcome = "complete"
    /\ last.pre_accum
    /\ "below" \in intr
    /\ last.event.type = "Battery"

(* C7: next() returns None exactly when its final read was a zero-length *)
(* read, and such a read yields neither an event nor an error.              *)
C7_EndOfStream ==
    /\ (pc = "caller" /\ ret # Pending) => (ret.kind = "None" <=> last.op = "zero")
    /\ last.op = "zero" => (pc = "caller" /\ ret = [kind |-> "None", event |-> NoEvent])

C7_Witness ==
    /\ pc = "caller" /\ ret.kind = "None" /\ last.op = "zero"
    /\ last.pre_incoming # <<>>

(* C8: a failed read is returned as an error item at once and leaves the *)
(* buffer and the stored header as they were.                               *)
C8_ReadFailureKeepsState ==
    last.op = "fail" =>
        /\ pc = "caller"
        /\ ret = [kind |-> "Err", event |-> NoEvent]
        /\ incoming = last.pre_incoming
        /\ header = last.pre_header

(* a packet in progress at a failed read is completed by a later next() *)
C8_Witness ==
    /\ Handled /\ last.outcome = "complete"
    /\ last.pre_accum
    /\ "fail" \in intr
    /\ pc = "caller" /\ ret.kind = "Ok" /\ ret.event.type = "Battery"

(* C9 as stated: a report of a kind that is not recognized never yields an *)
(* event and never a protocol violation, and no report of a recognized kind *)
(* is rejected over bytes that a packet of such a kind left buffered.       *)
C9_UnknownKindNeverViolates ==
    /\ (Handled /\ (LastHeader.signature - HP_SIGNATURE) \notin Recognized) =>
            /\ last.event = NoEvent
            /\ last.outcome # "panic"
    /\ (/\ Handled /\ (LastHeader.signature - HP_SIGNATURE) \in Recognized
        /\ last.outcome = "panic" /\ last.pre_incoming # <<>>)
            => HeaderKind(last.pre_header) \in Recognized

(* C9 amended: a report of a kind that is not recognized never yields an   *)
(* event or an error item; it is reassembled like any other, so it is      *)
(* rejected exactly on a sequence 0 with bytes buffered or a continuation  *)
(* that disagrees with the stored header; completing, it empties the buffer. *)
C9_UnknownKindReassembled ==
    (Handled /\ (LastHeader.signature - HP_SIGNATURE) \notin Recognized) =>
        /\ last.event = NoEvent
        /\ ret.kind \notin {"Ok", "Err"}
        /\ last.outcome = "panic" <=>
              IF LastHeader.sequence = 0 THEN last.pre_incoming # <<>> ELSE ~Matches
        /\ last.outcome # "panic" => pc = "iterated"
        /\ (last.outcome # "panic" /\ Len(LastFull) >= LastHeader.length)
              => incoming = <<>>

C9_Witness ==
    /\ Handled /\ (LastHeader.signature - HP_SIGNATURE) \notin Recognized
    /\ last.outcome = "complete"
    /\ Len(last.decoded) = 5

----------------------------------------------------------------------------
(* C1: a logical packet delivered in any 1..MaxCuts contiguous chunks with *)
(* sequence numbers 0, 1, .. yields the event (or the absence of one) that *)
(* delivering it in a single report yields.                                 *)
C1_SplitInvariance ==
    (sp.state = "done" /\ Len(sp.payload) = sp.length) =>
        /\ ~sp.panicked
        /\ sp.events = IF sp.whole = NoEvent THEN <<>> ELSE <<sp.whole>>

C1_Witness ==
    /\ sp.state = "done"
    /\ Len(sp.cuts) = 3
    /\ \A j \in 1..3 : sp.cuts[j] > 0
    /\ sp.events # <<>>
    /\ sp.events[1].type = "Buttons"

(* the Buttons event of the scenario, but for support_program_stop *)
ScenarioEvent(id, host, press, program_stop) ==
    [type |-> "Buttons",
     total_buttons |-> 7,
     programmed_buttons |-> 1,
     host_id |-> 0,
     support_long_press |-> TRUE,
     support_double_press |-> TRUE,
     support_down_up_press |-> FALSE,
     support_simulate |-> FALSE,
     support_program_stop |-> program_stop,
     buttons |-> <<[id |-> id, host_id |-> host,
                    press_type |-> press, action |-> <<>>]>>]

ScenarioDecoded(id, host, press) ==
    /\ dec.state = "decoded"
    /\ dec.kind = 14
    /\ dec.data = ButtonsScenario(id, host, press)

(* C10 as stated: the payload [0x00, 7, 1, 0, 0b00010011, id, host, press, 0] *)
(* decodes to Buttons with 7 total, 1 programmed, host 0, long and double     *)
(* press supported, down/up, simulate and program-stop not supported, and one *)
(* Button (id, host, press) with empty action.                                *)
C10_ButtonsScenarioAsStated ==
    \A id \in ByteSamples, host \in ByteSamples, press \in ByteSamples :
        ScenarioDecoded(id, host, press) =>
            dec.event = ScenarioEvent(id, host, press, FALSE)

(* C10 amended: the same, but support_program_stop is true: bit 4 of *)
(* 0b00010011 is set.                                                 *)
C10_ButtonsScenario ==
    \A id \in ByteSamples, host \in ByteSamples, press \in ByteSamples :
        ScenarioDecoded(id, host, press) =>
            dec.event = ScenarioEvent(id, host, press, TRUE)

C10_Witness ==
    /\ dec.state = "decoded"
    /\ dec.kind = 14
    /\ dec.data = ButtonsScenario(1, 127, 255)
    /\ dec.event.type = "Buttons"
    /\ dec.event.support_program_stop
    /\ Len(dec.event.buttons) = 1

----------------------------------------------------------------------------
(* "Mouse", "Mous", "001" and "\x03001" as UTF-8 bytes *)
TextMouse == <<77, 111, 117, 115, 101>>
TextMous == <<77, 111, 117, 115>>
Text001 == <<48, 48, 49>>
TextCtrl001 == <<3, 48, 48, 49>>

FirmwareScenarioDecoded ==
    dec.state = "decoded" /\ dec.kind = 1 /\ dec.data = FirmwareScenario

(* C11 as stated: the payload [0xE8,0x03, 0x00,0x00, 0x04,'M','o','u','s','e', *)
(* 0x03,'0','0','1'] decodes to Firmware{version:(1,0,0), device:"Mouse",      *)
(* serial:"001"}.                                                              *)
C11_FirmwareScenarioAsStated ==
    FirmwareScenarioDecoded =>
        dec.event = [type |-> "Firmware", version |-> <<1, 0, 0>>,
                     device |-> TextMouse, serial |-> Text001]

(* C11 amended: that payload decodes to Firmware{version:(1,0,0),           *)
(* device:"Mous", serial:"\x03001"}: the length byte 0x04 takes four bytes, *)
(* 'e' is read as the next length byte and its item is clamped to the four  *)
(* bytes that remain.                                                       *)
C11_FirmwareScenario ==
    FirmwareScenarioDecoded =>
        dec.event = [type |-> "Firmware", version |-> <<1, 0, 0>>,
                     device |-> TextMous, serial |-> TextCtrl001]

C11_Witness ==
    /\ FirmwareScenarioDecoded
    /\ dec.event.type = "Firmware"
    /\ dec.event.device = TextMous

----------------------------------------------------------------------------
(* The button records of a Buttons payload as the wire format lays them out *)

(* data[k], 1-based, 0 beyond the data *)
ByteAt(data, k) == IF k \in 1..Len(data) THEN data[k] ELSE 0

(* Rust index of the j-th record: the first at 5, each 4 fixed bytes and *)
(* as many action bytes as its length byte declares                      *)
RECURSIVE RecordAt(_, _)
RecordAt(data, j) ==
    IF j <= 1 THEN 5
    ELSE LET o == RecordAt(data, j - 1)
         IN  o + 4 + ByteAt(data, o + 4)

(* the declared action length of the j-th record, and the bytes left for it *)
DeclaredAction(data, j) == ByteAt(data, RecordAt(data, j) + 4)
LeftForAction(data, j) == Len(data) - (RecordAt(data, j) + 4)

(* the j-th record is in the payload with all its bytes *)
RecordComplete(data, j) == LeftForAction(data, j) >= DeclaredAction(data, j)

ButtonsDecoded ==
    dec.state = "decoded" /\ dec.kind = 14 /\ dec.event.type = "Buttons"

(* C12 as stated: a truncated trailing record contributes no Button, so *)
(* every Button's action has exactly the n bytes its record declares.   *)
C12_NoPartialButtons ==
    ButtonsDecoded =>
        \A j \in 1..Len(dec.event.buttons) :
            /\ RecordComplete(dec.data, j)
            /\ Len(dec.event.buttons[j].action) = DeclaredAction(dec.data, j)

(* C12 amended: a trailing record with fewer than its 4 fixed bytes left *)
(* contributes no Button; a record with its 4 fixed bytes but fewer than *)
(* n action bytes left contributes a Button whose action is the bytes    *)
(* that are left; only the last Button can be short.                     *)
C12_ButtonsClamped ==
    ButtonsDecoded =>
        \A j \in 1..Len(dec.event.buttons) :
            /\ LeftForAction(dec.data, j) >= 0
            /\ Len(dec.event.buttons[j].action) =
                  IF RecordComplete(dec.data, j) THEN DeclaredAction(dec.data, j)
                  ELSE LeftForAction(dec.data, j)
            /\ ~RecordComplete(dec.data, j) => j = Len(dec.event.buttons)

(* a Button decoded from a record whose action is cut short *)
C12_Witness ==
    /\ ButtonsDecoded
    /\ Len(dec.event.buttons) = 2
    /\ DeclaredAction(dec.data, 2) = 1
    /\ dec.event.buttons[2].action = <<>>

(* C13: a Buttons event has at most programmed_buttons Buttons, in wire   *)
(* order, and exactly programmed_buttons when the payload holds that many *)
(* complete records.                                                      *)
C13_ButtonCountBound ==
    ButtonsDecoded =>
        LET pb == dec.data[3]
            buttons == dec.event.buttons
        IN  /\ dec.event.programmed_buttons = pb
            /\ Len(buttons) <= pb
            /\ \A j \in 1..Len(buttons) :
                LET o == RecordAt(dec.data, j)
                IN  /\ buttons[j].id = ByteAt(dec.data, o + 1)
                    /\ buttons[j].host_id = ByteAt(dec.data, o + 2)
                    /\ buttons[j].press_type = ByteAt(dec.data, o + 3)
                    /\ buttons[j].action =
                          SubSeq(dec.data, o + 5, o + 4 + Len(buttons[j].action))
            /\ (\A j \in 1..pb : RecordComplete(dec.data, j)) => Len(buttons) = pb

C13_Witness ==
    /\ ButtonsDecoded
    /\ dec.data[3] = 2
    /\ Len(dec.event.buttons) = 2
    /\ RecordComplete(dec.data, 2)
    /\ dec.event.buttons[1].id # dec.event.buttons[2].id
    /\ dec.event.buttons[1].action # <<>>

----------------------------------------------------------------------------
(* The items of a Firmware payload as the wire format lays them out *)

(* Rust index of the length byte of the j-th item: the first at 4, each *)
(* one length byte n and n bytes                                        *)
RECURSIVE ItemAt(_, _)
ItemAt(data, j) ==
    IF j <= 1 THEN 4
    ELSE LET o == ItemAt(data, j - 1)
         IN  o + 1 + ByteAt(data, o + 1)

(* how many items start inside the payload *)
ItemCount(data) ==
    Cardinality({j \in 1..Len(data) : ItemAt(data, j) < Len(data)})

(* the bytes of the j-th item, clamped to the payload *)
ItemBytes(data, j) ==
    LET o == ItemAt(data, j)
        n == ByteAt(data, o + 1)
    IN  SubSeq(data, o + 2, IF o + 1 + n <= Len(data) THEN o + 1 + n ELSE Len(data))

(* over FirmwareBytes the valid texts are those without the byte 0xFF *)
PlainText(item) == \A k \in 1..Len(item) : item[k] <= 127

FirmwareDecoded ==
    dec.state = "decoded" /\ dec.kind = 1 /\ dec.data \in {in.data : in \in FirmwareInputs}

(* C14 as stated: a Firmware event is produced only when the payload has *)
(* more than 3 bytes and the parse gives exactly two items, both valid   *)
(* text; with fewer than two items or an item that is not valid text, no *)
(* event is produced.                                                    *)
C14_ExactlyTwoItems ==
    FirmwareDecoded =>
        /\ dec.event.type = "Firmware" =>
              /\ Len(dec.data) > 3
              /\ ItemCount(dec.data) = 2
              /\ PlainText(ItemBytes(dec.data, 1))
              /\ PlainText(ItemBytes(dec.data, 2))
        /\ (\/ ItemCount(dec.data) < 2
            \/ \E j \in 1..ItemCount(dec.data) : ~PlainText(ItemBytes(dec.data, j)))
              => dec.event = NoEvent

(* C14 amended: a Firmware event is produced exactly when the payload has *)
(* more than 3 bytes and the parse gives at least two items of which the  *)
(* first two are valid text, the device name and the serial number; items *)
(* after the second are ignored, valid text or not.                       *)
C14_FirstTwoItems ==
    FirmwareDecoded =>
        LET two == /\ Len(dec.data) > 3
                   /\ ItemCount(dec.data) >= 2
                   /\ PlainText(ItemBytes(dec.data, 1))
                   /\ PlainText(ItemBytes(dec.data, 2))
        IN  IF two
            THEN /\ dec.event.type = "Firmware"
                 /\ dec.event.device = ItemBytes(dec.data, 1)
                 /\ dec.event.serial = ItemBytes(dec.data, 2)
            ELSE dec.event = NoEvent

(* an event from a payload with a third item that is not valid text *)
C14_Witness ==
    /\ FirmwareDecoded
    /\ dec.event.type = "Firmware"
    /\ ItemCount(dec.data) = 3
    /\ ~PlainText(ItemBytes(dec.data, 3))
    /\ dec.event.device # <<>>

----------------------------------------------------------------------------
(* C15: a kind-6 packet of declared length 5 with payload [b0..b4], in one *)
(* report of sequence 0 delivered from Idle, emits Battery with low_level  *)
(* b0, crit_level b1, power_off_timeout b2, auto_report_delay b3, level b4 *)
C15_BatteryIdentity ==
    (dec.state = "delivered" /\ dec.kind = 6 /\ Len(dec.data) = 5) =>
        dec.event = [type |-> "Battery",
                     low_level |-> dec.data[1],
                     crit_level |-> dec.data[2],
                     power_off_timeout |-> dec.data[3],
                     auto_report_delay |-> dec.data[4],
                     level |-> dec.data[5]]

(* the scenario [10, 5, 30, 60, 85] delivered and decoded *)
C15_Witness ==
    /\ dec.state = "delivered"
    /\ dec.kind = 6
    /\ dec.data = BatteryScenario
    /\ dec.event.type = "Battery"
    /\ dec.event.low_level = 10
    /\ dec.event.crit_level = 5
    /\ dec.event.level = 85

----------------------------------------------------------------------------
(* the nibbles of a byte, by arithmetic on its value *)
LowNibble(b) == b - 16 * (b \div 16)
HighNibble(b) == b \div 16

(* a wheel as byte b gives it: absent when the low nibble is 0 *)
WheelAsStated(nb, sens, b) ==
    /\ nb.present = (LowNibble(b) # 0)
    /\ nb.present => nb.value = LowNibble(b) /\ nb.value \in 1..15
    /\ sens = HighNibble(b)

(* C16: in every Mouse event of a kind-18 packet, nb_sensitivity_wheel1 is *)
(* absent exactly when the low nibble of payload byte 9 is 0, else present *)
(* with that nibble, and sensitivity_wheel1 is the high nibble of byte 9;  *)
(* the same for wheel 2 with byte 10, each wheel from its own byte alone   *)
C16_WheelNibbles ==
    (dec.state \in {"decoded", "delivered"} /\ dec.kind = 18
        /\ dec.event.type = "Mouse") =>
        /\ WheelAsStated(dec.event.nb_sensitivity_wheel1,
                         dec.event.sensitivity_wheel1, ByteAt(dec.data, 10))
        /\ WheelAsStated(dec.event.nb_sensitivity_wheel2,
                         dec.event.sensitivity_wheel2, ByteAt(dec.data, 11))

(* a Mouse event with wheel 1 absent and wheel 2 present with value 15 *)
C16_Witness ==
    /\ dec.state = "decoded"
    /\ dec.kind = 18
    /\ dec.event.type = "Mouse"
    /\ ByteAt(dec.data, 10) = 240
    /\ ByteAt(dec.data, 11) = 47
    /\ ~dec.event.nb_sensitivity_wheel1.present
    /\ dec.event.sensitivity_wheel1 = 15
    /\ dec.event.nb_sensitivity_wheel2.present
    /\ dec.event.nb_sensitivity_wheel2.value = 15
    /\ dec.event.sensitivity_wheel2 = 2

----------------------------------------------------------------------------
(* C18 as stated: a report whose composite-device id differs from that of *)
(* the sequence-0 report that started the packet in progress is never     *)
(* appended to that packet's buffer.                                      *)
C18_ForeignReportNotAppended ==
    (Handled /\ last.pre_accum /\ LastHeader.sequence # 0
        /\ last.outcome \in {"partial", "complete"})
        => LastHeader.composit_device = last.pre_header.composit_device

----------------------------------------------------------------------------
(* C19: between two reports the buffer is empty or strictly shorter than  *)
(* the declared length of the stored header; an event is emitted only by  *)
(* the report whose payload first brings the buffered length up to the    *)
(* declared length, and that report emits the one event next() returns.   *)
C19_BufferShortfall ==
    /\ pc # "panicked" => (incoming = <<>> \/ Len(incoming) < header.length)
    /\ (last.op = "report1" /\ last.event # NoEvent) =>
          /\ last.pre_incoming = <<>> \/ Len(last.pre_incoming) < LastHeader.length
          /\ Len(last.pre_incoming) < LastHeader.length
          /\ Len(LastFull) >= LastHeader.length
          /\ ret = [kind |-> "Ok", event |-> last.event]
          /\ pc = "caller"

(* an event emitted by a continuation report that completes a buffered part *)
C19_Witness ==
    /\ last.op = "report1"
    /\ last.event # NoEvent
    /\ last.pre_incoming # <<>>
    /\ Len(last.pre_incoming) < last.pre_header.length
    /\ LastHeader.sequence # 0
    /\ incoming = <<>>

----------------------------------------------------------------------------
(* the latest report completed a packet *)
Completed == Handled /\ last.outcome = "complete"

(* "data.len() <= 3", "<= 4", "<= 14" of the decoders *)
TooShort(kind, l) ==
    \/ kind = 1 /\ l <= 3
    \/ kind \in {6, 14} /\ l <= 4
    \/ kind = 18 /\ l <= 14

(* the first payload byte of a kind-14 or kind-18 packet is not 0 *)
WrongCommand(kind, data) == kind \in {14, 18} /\ Len(data) > 0 /\ data[1] # 0

(* C20: a packet that completes with declared length L <= 3 (kind 1),     *)
(* L <= 4 (kind 6 or 14) or L <= 14 (kind 18), or of kind 14 or 18 with a *)
(* first payload byte that is not 0, yields no event; a sequence-0 report *)
(* declaring L = 0 completes at once on the empty buffer. The buffer is   *)
(* then empty, no error is raised and next() goes on to read.             *)
C20_TooShortSkipped ==
    /\ (/\ Completed
        /\ HeaderKind(LastHeader) \in Recognized
        /\ \/ TooShort(HeaderKind(LastHeader), LastHeader.length)
           \/ WrongCommand(HeaderKind(LastHeader), last.decoded))
          => /\ last.event = NoEvent
             /\ incoming = <<>>
             /\ ~accum
             /\ ret = Pending
             /\ pc = "iterated"
    /\ (Handled /\ LastHeader.sequence = 0 /\ LastHeader.length = 0
            /\ last.pre_incoming = <<>>)
          => Completed

(* a kind-18 packet of 14 bytes completed by a second report and skipped *)
C20_Witness ==
    /\ Completed
    /\ HeaderKind(LastHeader) = 18
    /\ LastHeader.length = 14
    /\ Len(last.decoded) = 14
    /\ last.pre_incoming # <<>>
    /\ last.event = NoEvent
    /\ pc = "iterated"

----------------------------------------------------------------------------
(* the bytes the latest read returned after the report-type byte, and the *)
(* payload among them                                                      *)
ReadBytes == SubSeq(buf, 2, last.len)
ReadPayload == SubSeq(buf, 6, last.len)

(* the latest iteration left the reassembly state as it was, with no event *)
NothingChanged ==
    /\ last.event = NoEvent
    /\ incoming = last.pre_incoming
    /\ header = last.pre_header
    /\ accum = last.pre_accum
    /\ ret = Pending
    /\ pc = "iterated"

(* C21: a report whose first byte is not 1, and a type-1 report with fewer *)
(* than 4 bytes after the report-type byte, produce no event and leave the *)
(* buffer and the stored header unchanged in every state; only the bytes   *)
(* the current read returned (positions 1..len) are fed to reassembly.     *)
C21_UnhandledChangesNothing ==
    /\ last.op = "other" => NothingChanged
    /\ (last.op = "report1" /\ last.len - 1 < 4) => NothingChanged
    /\ (last.op = "report1" /\ last.outcome = "partial")
          => incoming = last.pre_incoming \o ReadPayload
    /\ (last.op = "report1" /\ last.outcome = "complete")
          => LET h == HeaderNew(ReadBytes)
             IN  /\ Len(last.pre_incoming \o ReadPayload) >= h.length
                 /\ last.decoded = SubSeq(last.pre_incoming \o ReadPayload, 1, h.length)
    /\ (last.op = "report1" /\ last.outcome # "noheader") => last.len - 1 >= 4

(* a type-1 report of 3 bytes after the type byte, read over a longer      *)
(* earlier report while a packet is in progress                            *)
C21_Witness ==
    /\ last.op = "report1"
    /\ last.len = 4
    /\ Len(buf) > 5
    /\ last.pre_accum
    /\ last.pre_incoming # <<>>
    /\ incoming = last.pre_incoming

----------------------------------------------------------------------------
(* the latest read was ignored, left a packet incomplete or decoded to nothing *)
ReadOn ==
    /\ last.op \in {"other", "report1"}
    /\ last.outcome # "panic"
    /\ last.event = NoEvent

(* the transport answers every read *)
TransportAnswers == WF_vars(ReadFail \/ ReadZero \/ ReadOther \/ ReadBuffer)

(* what the transport delivers is a zero-length read, a failure, or a *)
(* report with which a packet decoding to an event is complete        *)
DeliversEnd ==
    \/ ReadZero
    \/ ReadFail
    \/ ReadBuffer /\ last'.outcome = "complete" /\ last'.event # NoEvent

(* a call that reads again and again is at some read delivered such a one *)
TransportEnds == SF_vars(DeliversEnd)

(* the latest report failed an assertion of report_1: a sequence 0 with *)
(* bytes buffered, or a continuation that disagrees with the stored header *)
AssertionFailed ==
    /\ Handled
    /\ IF LastHeader.sequence = 0 THEN last.pre_incoming # <<>> ELSE ~Matches

(* C22 as stated: under a fair transport every call to next() eventually *)
(* returns provided the transport eventually delivers a zero-length read, *)
(* a read failure or a report that completes a packet decoding to an event. *)
C22_EveryCallReturns ==
    (TransportAnswers /\ TransportEnds) => ((pc = "loop") ~> (pc = "caller"))

(* C22 amended: under such a transport every call to next() eventually   *)
(* returns unless a report it read failed an assertion of report_1, which *)
(* ends the call without a return; and after a report that is ignored,    *)
(* incomplete or decodes to nothing next() has returned nothing and goes  *)
(* back to the read.                                                      *)
C22_Progress ==
    (TransportAnswers /\ TransportEnds) =>
        /\ (pc = "loop") ~> (pc = "caller" \/ (pc = "panicked" /\ AssertionFailed))
        /\ [](pc = "panicked" => AssertionFailed /\ ret = Pending)
        /\ [](ReadOn => pc = "iterated" /\ ret = Pending)
        /\ (pc = "iterated") ~> (pc = "loop")

(* an event returned by a read that followed other reads of the same call *)
C22_Witness ==
    /\ pc = "caller"
    /\ ret.kind = "Ok"
    /\ last.op = "report1"
    /\ last.event # NoEvent
    /\ last.pre_incoming # <<>>

----------------------------------------------------------------------------
(* C23: for header bytes b0..b3, signature = b0 + 256*(b1 mod 16),         *)
(* composite-device id = b1 div 16, length = b2 + 256*(b3 mod 4) <= 1023,  *)
(* sequence = b3 div 4 <= 63, and the stored sequence plus 1 fits 8 bits;  *)
(* kind = signature - base when signature >= base, absent otherwise.       *)
C23_HeaderFields ==
    /\ dec.state \in {"parsed", "stored"} =>
          LET b0 == dec.data[1]
              b1 == dec.data[2]
              b2 == dec.data[3]
              b3 == dec.data[4]
              signature == b0 + 256 * (b1 - 16 * (b1 \div 16))
          IN  /\ dec.hdr.signature = signature
              /\ dec.hdr.composit_device = b1 \div 16
              /\ dec.hdr.length = b2 + 256 * (b3 - 4 * (b3 \div 4))
              /\ dec.hdr.length <= 1023
              /\ dec.hdr.sequence = b3 \div 4
              /\ dec.hdr.sequence <= 63
              /\ dec.kind = IF signature >= HP_SIGNATURE
                            THEN signature - HP_SIGNATURE ELSE NoKind
    /\ (dec.state = "stored" /\ dec.outcome \in {"partial", "complete"}) =>
          /\ dec.stored.sequence = dec.hdr.sequence
          /\ dec.stored.length = dec.hdr.length
          /\ dec.stored.sequence + 1 <= 255

(* a continuation with every bit set: sequence 63 and length 1023 stored *)
C23_Witness ==
    /\ dec.state = "stored"
    /\ dec.data = <<255, 255, 255, 255>>
    /\ dec.outcome = "partial"
    /\ dec.stored.sequence = 63
    /\ dec.stored.length = 1023
    /\ dec.kind = 255

====
